---- MODULE Spec2Model ----
(***************************************************************************)
(* Model of the weight log (src/src/weight.rs), the tilde expander         *)
(* (src/src/shell.rs), the configuration path expansion                    *)
(* (src/src/config.rs) and the `weight status` command (src/src/main.rs).  *)
(***************************************************************************)
EXTENDS Integers, Sequences, FiniteSets

VARIABLES
    log,            \* the entries of the WeightLog, in stored order
    inserted,       \* history: the entries passed to insert, in call order
    sorts,          \* history: how many times insert sorted the log
    lastCall,       \* the most recent operation with its arguments and result
    overflowChecks, \* whether the build panics on integer overflow
    env,            \* the environment variables of the process
    home_dir_var,   \* ShellExpander.home_dir_var
    config          \* the Config value

vars == <<log, inserted, sorts, lastCall, overflowChecks, env, home_dir_var, config>>

(***************************************************************************)
(* Bounds of the model.                                                    *)
(***************************************************************************)
MaxLog == 3
MaxTime == 3

(***************************************************************************)
(* Weight(u32).  A u32 is kept at its full width as two 16-bit limbs,      *)
(* because the values near 2^32 do not fit the integers of the checker.    *)
(***************************************************************************)
Limb == 65536

U32(n) == [hi |-> n \div Limb, lo |-> n % Limb]

U32Max == [hi |-> Limb - 1, lo |-> Limb - 1]

U32Less(a, b) == a.hi < b.hi \/ (a.hi = b.hi /\ a.lo < b.lo)

U32Leq(a, b) == a = b \/ U32Less(a, b)

\* The mathematical sum of a sequence of u32 values: the low 32 bits as two
\* limbs and the number of times 2^32 was exceeded as carry.
RECURSIVE WideSum(_)
WideSum(ws) ==
    IF ws = <<>> THEN [carry |-> 0, hi |-> 0, lo |-> 0]
    ELSE LET acc == WideSum(Tail(ws))
             lo  == acc.lo + Head(ws).lo
             hi  == acc.hi + Head(ws).hi + (lo \div Limb)
         IN  [carry |-> acc.carry + (hi \div Limb), hi |-> hi % Limb, lo |-> lo % Limb]

\* window.iter().map(|entry| entry.weight().0).sum() into a u32: the sum
\* modulo 2^32, and whether an addition overflowed on the way.
SumU32(ws) ==
    LET wide == WideSum(ws)
    IN  [overflow |-> wide.carry > 0, value |-> [hi |-> wide.hi, lo |-> wide.lo]]

\* sum / period as u32: truncating division of a u32 by a small divisor.
DivU32(x, p) ==
    LET r == x.hi % p
    IN  [hi |-> x.hi \div p, lo |-> (r * Limb + x.lo) \div p]

(***************************************************************************)
(* WeightLogEntry and WeightLog.                                           *)
(***************************************************************************)
Weights == {U32(760), U32(757), U32(753), U32Max}

Timestamps == 1..MaxTime

WeightLogEntry == [weight : Weights, timestamp : Timestamps]

TimestampsOf(s) == [i \in 1..Len(s) |-> s[i].timestamp]

IsSortedByTimestamp(s) ==
    \A i \in 1..(Len(s) - 1) : s[i].timestamp <= s[i + 1].timestamp

IndexPermutations(n) ==
    {p \in [1..n -> 1..n] : \A i, j \in 1..n : p[i] = p[j] => i = j}

\* sort_unstable_by_key(WeightLogEntry::timestamp): the result is some
\* rearrangement of the slice ordered by the key; the order of entries with
\* equal keys is not specified.
SortUnstableByKey(s) ==
    {t \in {[i \in 1..Len(s) |-> s[p[i]]] : p \in IndexPermutations(Len(s))} :
        IsSortedByTimestamp(t)}

\* Variants of the comparison of insert: reversed, and not strict.
SortRequiredReversed(l, entry) ==
    Len(l) > 0 /\ l[Len(l)].timestamp < entry.timestamp

SortRequiredOnEqual(l, entry) ==
    Len(l) > 0 /\ l[Len(l)].timestamp >= entry.timestamp

\* self.0.last().map(timestamp).filter(|&ts| ts > entry.timestamp())
SortRequired(l, entry) ==
    Len(l) > 0 /\ l[Len(l)].timestamp > entry.timestamp

NoCall == [op |-> "none"]

NoConfig == [loaded |-> FALSE]

\* WeightLog::new, under either build profile.
Init ==
    /\ log = <<>>
    /\ inserted = <<>>
    /\ sorts = 0
    /\ lastCall = NoCall
    /\ overflowChecks \in BOOLEAN
    /\ env = <<>>
    /\ home_dir_var = ""
    /\ config = NoConfig

\* WeightLog::insert
Insert(entry) ==
    /\ Len(log) < MaxLog
    /\ LET sort_required == SortRequired(log, entry)
           pushed == Append(log, entry)
       IN  /\ log' \in (IF sort_required THEN SortUnstableByKey(pushed) ELSE {pushed})
           /\ sorts' = IF sort_required THEN sorts + 1 ELSE sorts
           /\ lastCall' = [op |-> "insert", entry |-> entry, sorted |-> sort_required,
                           before |-> log]
    /\ inserted' = Append(inserted, entry)
    /\ UNCHANGED <<overflowChecks, env, home_dir_var, config>>

WeightsOf(s) == [i \in 1..Len(s) |-> s[i].weight]

\* self.0.windows(period): every run of `period` consecutive entries, first
\* run first; none when the slice is shorter than the period.
Windows(l, period) ==
    IF Len(l) < period THEN <<>>
    ELSE [i \in 1..(Len(l) - period + 1) |-> SubSeq(l, i, i + period - 1)]

\* The closure mapped over the windows: the averaged entry, and whether the
\* u32 sum overflowed while it was computed.
WindowAverage(window, period) ==
    LET sum == SumU32(WeightsOf(window))
        average == DivU32(sum.value, period)
        last_timestamp == window[period].timestamp
    IN  [overflow |-> sum.overflow,
         entry |-> [weight |-> average, timestamp |-> last_timestamp]]

\* WeightLog::moving_average.  windows(0) panics; with overflow checks an
\* overflowing sum panics, without them it wraps.
MovingAverage(l, period, checks) ==
    IF period = 0 THEN [panic |-> TRUE, value |-> <<>>]
    ELSE LET ws == Windows(l, period)
             avgs == [i \in 1..Len(ws) |-> WindowAverage(ws[i], period)]
         IN  IF checks /\ \E i \in 1..Len(ws) : avgs[i].overflow
             THEN [panic |-> TRUE, value |-> <<>>]
             ELSE [panic |-> FALSE, value |-> [i \in 1..Len(ws) |-> avgs[i].entry]]

MovingAverageCall(period) ==
    /\ lastCall' = [op |-> "moving_average", period |-> period,
                    result |-> MovingAverage(log, period, overflowChecks)]
    /\ UNCHANGED <<log, inserted, sorts, overflowChecks, env, home_dir_var, config>>

Next ==
    \/ \E entry \in WeightLogEntry : Insert(entry)
    \/ \E period \in 0..(MaxLog + 1) : MovingAverageCall(period)

Spec == Init /\ [][Next]_vars

(***************************************************************************)
(* WeightLog::from_csv.  The source is the text as csv::Reader splits it:  *)
(* a sequence of records, each a sequence of fields, each a sequence of    *)
(* characters.                                                             *)
(***************************************************************************)
MaxRecords == 3

Digits == <<"0", "1", "2", "3", "4", "5", "6", "7", "8", "9">>

IsDigit(c) == \E i \in 1..10 : Digits[i] = c

DigitValue(c) == (CHOOSE i \in 1..10 : Digits[i] = c) - 1

\* The u32 named by the first n decimal digits of ds, and whether it
\* exceeded the width.
RECURSIVE ParseDigits(_, _)
ParseDigits(ds, n) ==
    IF n = 0 THEN [overflow |-> FALSE, hi |-> 0, lo |-> 0]
    ELSE LET acc == ParseDigits(ds, n - 1)
             lo  == acc.lo * 10 + DigitValue(ds[n])
             hi  == acc.hi * 10 + (lo \div Limb)
         IN  [overflow |-> acc.overflow \/ hi >= Limb, hi |-> hi % Limb, lo |-> lo % Limb]

\* Deserialization of Weight(u32) from a field: str::parse::<u32>, an
\* optional plus sign and then decimal digits only, within the width.
ParseU32(field) ==
    LET body == IF field # <<>> /\ field[1] = "+" THEN Tail(field) ELSE field
    IN  IF body = <<>> \/ \E i \in 1..Len(body) : ~IsDigit(body[i])
        THEN [ok |-> FALSE]
        ELSE LET acc == ParseDigits(body, Len(body))
             IN  IF acc.overflow THEN [ok |-> FALSE]
                 ELSE [ok |-> TRUE, value |-> [hi |-> acc.hi, lo |-> acc.lo]]

AllDigits(field, from, to) == \A i \in from..to : IsDigit(field[i])

Num2(field, i) == DigitValue(field[i]) * 10 + DigitValue(field[i + 1])

Num4(field, i) == Num2(field, i) * 100 + Num2(field, i + 2)

IsLeapYear(y) == (y % 4 = 0 /\ y % 100 # 0) \/ y % 400 = 0

DaysInMonth(y, m) ==
    IF m = 2 THEN (IF IsLeapYear(y) THEN 29 ELSE 28)
    ELSE IF m \in {4, 6, 9, 11} THEN 30 ELSE 31

\* Days from 1970-01-01 to the civil date y-m-d.
DaysFromCivil(y, m, d) ==
    LET yy  == IF m <= 2 THEN y - 1 ELSE y
        era == yy \div 400
        yoe == yy - era * 400
        mp  == IF m > 2 THEN m - 3 ELSE m + 9
        doy == (153 * mp + 2) \div 5 + d - 1
        doe == yoe * 365 + (yoe \div 4) - (yoe \div 100) + doy
    IN  era * 146097 + doe - 719468

\* Deserialization of DateTime<Utc> from a field: an RFC 3339 date-time
\* YYYY-MM-DDTHH:MM:SS followed by Z or +HH:MM or -HH:MM, converted to the
\* instant in UTC (seconds since 1970-01-01T00:00:00Z).
ParseRfc3339(field) ==
    LET n == Len(field)
        shape ==
            /\ n \in {20, 25}
            /\ AllDigits(field, 1, 4) /\ field[5] = "-"
            /\ AllDigits(field, 6, 7) /\ field[8] = "-"
            /\ AllDigits(field, 9, 10) /\ field[11] \in {"T", "t"}
            /\ AllDigits(field, 12, 13) /\ field[14] = ":"
            /\ AllDigits(field, 15, 16) /\ field[17] = ":"
            /\ AllDigits(field, 18, 19)
            /\ IF n = 20 THEN field[20] \in {"Z", "z"}
               ELSE /\ field[20] \in {"+", "-"}
                    /\ AllDigits(field, 21, 22) /\ field[23] = ":"
                    /\ AllDigits(field, 24, 25)
    IN  IF ~shape THEN [ok |-> FALSE]
        ELSE LET y  == Num4(field, 1)
                 mo == Num2(field, 6)
                 d  == Num2(field, 9)
                 h  == Num2(field, 12)
                 mi == Num2(field, 15)
                 sec == Num2(field, 18)
                 off == IF n = 20 THEN 0
                        ELSE (IF field[20] = "-" THEN -1 ELSE 1)
                             * (Num2(field, 21) * 3600 + Num2(field, 24) * 60)
                 inRange ==
                     /\ mo \in 1..12 /\ d \in 1..DaysInMonth(y, mo)
                     /\ h < 24 /\ mi < 60 /\ sec < 60
                     /\ (n = 25 => Num2(field, 21) < 24 /\ Num2(field, 24) < 60)
             IN  IF ~inRange THEN [ok |-> FALSE]
                 ELSE [ok |-> TRUE,
                       value |-> DaysFromCivil(y, mo, d) * 86400
                                 + h * 3600 + mi * 60 + sec - off]

WeightField == <<"w", "e", "i", "g", "h", "t">>

TimestampField == <<"t", "i", "m", "e", "s", "t", "a", "m", "p">>

\* The column of the record that the headers name `name`; 0 if none.
Column(headers, name) ==
    IF \E i \in 1..Len(headers) : headers[i] = name
    THEN CHOOSE i \in 1..Len(headers) : headers[i] = name
    ELSE 0

\* Deserialization of one record into a WeightLogEntry: the fields are
\* found by the names in the header record and then parsed.
DeserializeEntry(headers, record) ==
    LET wcol == Column(headers, WeightField)
        tcol == Column(headers, TimestampField)
    IN  IF Len(record) # Len(headers) \/ wcol = 0 \/ tcol = 0
        THEN [ok |-> FALSE]
        ELSE LET w == ParseU32(record[wcol])
                 t == ParseRfc3339(record[tcol])
             IN  IF w.ok /\ t.ok
                 THEN [ok |-> TRUE, value |-> [weight |-> w.value, timestamp |-> t.value]]
                 ELSE [ok |-> FALSE]

\* WeightLog::from_csv: the reader takes the first record of the source as
\* the headers, every later record is deserialized, and the first failure
\* is the result.
FromCsv(source) ==
    LET headers == IF source = <<>> THEN <<>> ELSE Head(source)
        records == IF source = <<>> THEN <<>> ELSE Tail(source)
        entries == [i \in 1..Len(records) |-> DeserializeEntry(headers, records[i])]
    IN  IF \E i \in 1..Len(records) : ~entries[i].ok
        THEN [ok |-> FALSE]
        ELSE [ok |-> TRUE, log |-> [i \in 1..Len(records) |-> entries[i].value]]

HeaderRecord == <<WeightField, TimestampField>>

Weight760 == <<"7", "6", "0">>

Weight750 == <<"7", "5", "0">>

WeightFractional == <<"7", "6", "0", ".", "0">>

Timestamp1 == <<"2", "0", "1", "9", "-", "0", "1", "-", "0", "1", "T", "0", "0", ":", "0", "6", ":", "0", "0", "+", "0", "0", ":", "0", "0">>

Timestamp2 == <<"2", "0", "1", "9", "-", "0", "1", "-", "0", "2", "T", "0", "0", ":", "0", "6", ":", "0", "0", "+", "0", "0", ":", "0", "0">>

TimestampMalformed == <<"2", "0", "1", "9", "-", "0", "1", "-", "0", "1", "T", "0", "0", ":", "0", "6", ":", "0", "0", "+", "0", "0", ":", "0", "0", ":", "0", "0">>

CsvRecords ==
    { HeaderRecord,
      <<Weight760, Timestamp2>>,
      <<Weight750, Timestamp1>>,
      <<WeightFractional, Timestamp1>>,
      <<Weight760, TimestampMalformed>> }

RECURSIVE SeqsUpTo(_, _)
SeqsUpTo(S, n) ==
    IF n = 0 THEN {<<>>}
    ELSE LET shorter == SeqsUpTo(S, n - 1)
         IN  shorter \cup {Append(q, x) : q \in shorter, x \in S}

CsvSources == SeqsUpTo(CsvRecords, MaxRecords)

\* A failed from_csv leaves the caller without a log.
FromCsvCall(source) ==
    LET result == FromCsv(source)
    IN  /\ lastCall' = [op |-> "from_csv", source |-> source, result |-> result]
        /\ log' = IF result.ok THEN result.log ELSE <<>>
        /\ UNCHANGED <<inserted, sorts, overflowChecks, env, home_dir_var, config>>

(***************************************************************************)
(* The `weight status` command of main.                                    *)
(***************************************************************************)
MaxDays == 16

moving_average_period == 14

\* The decimal digits of a natural number.
RECURSIVE DecimalChars(_)
DecimalChars(n) ==
    IF n < 10 THEN <<Digits[n + 1]>>
    ELSE Append(DecimalChars(n \div 10), Digits[(n % 10) + 1])

WeightHuge == <<"4", "2", "9", "4", "9", "6", "7", "2", "9", "5">>

\* The timestamp field of six minutes past midnight UTC on a day of
\* January 2019.
JanuaryTimestamp(day) ==
    <<"2", "0", "1", "9", "-", "0", "1", "-">> \o <<Digits[(day \div 10) + 1], Digits[(day % 10) + 1]>>
        \o <<"T", "0", "0", ":", "0", "6", ":", "0", "0", "+", "0", "0", ":", "0", "0">>

Shapes == {"falling", "flat", "rising", "huge"}

ShapedWeight(shape, day) ==
    CASE shape = "falling" -> DecimalChars(760 - 3 * day)
      [] shape = "flat"    -> DecimalChars(760)
      [] shape = "rising"  -> DecimalChars(760 + 3 * day)
      [] shape = "huge"    -> WeightHuge

\* A well-formed source with one record per day, for `days` days.
DailySource(days, shape) ==
    <<HeaderRecord>> \o
        [day \in 1..days |-> <<ShapedWeight(shape, day), JanuaryTimestamp(day)>>]

StatusSources ==
    CsvSources \cup {DailySource(days, shape) : days \in 0..MaxDays, shape \in Shapes}

ModU32(x, p) == ((x.hi % p) * Limb + x.lo) % p

\* Display for Weight: the tenths as whole part and first decimal.
WeightDisplay(w) == [integer |-> DivU32(w, 10), fractional |-> ModU32(w, 10)]

\* last.cmp(penultimate).  weight.rs declares no ordering for
\* WeightLogEntry; the entries are compared field by field in declaration
\* order, weight first and then timestamp.
EntryCmp(a, b) ==
    IF U32Less(a.weight, b.weight) THEN "down"
    ELSE IF U32Less(b.weight, a.weight) THEN "up"
    ELSE IF a.timestamp < b.timestamp THEN "down"
    ELSE IF a.timestamp > b.timestamp THEN "up"
    ELSE "flat"

Panicked(out) == [exit |-> "panic", stdout |-> out]

\* The body of the status subcommand, source already opened: what it
\* printed and whether it ended by a panic.
Status(source, checks) ==
    LET loaded == FromCsv(source)
    IN  IF ~loaded.ok THEN Panicked(<<>>)                \* from_csv(..).unwrap()
        ELSE IF loaded.log = <<>> THEN Panicked(<<>>)    \* as_slice().last().unwrap()
        ELSE
        LET last == loaded.log[Len(loaded.log)]
            latest == [line |-> "latest", weight |-> WeightDisplay(last.weight),
                       timestamp |-> last.timestamp]
            average == MovingAverage(loaded.log, moving_average_period, checks)
            len == Len(average.value)
        IN  IF average.panic THEN Panicked(<<latest>>)
            ELSE IF len = 0 THEN [exit |-> "ok", stdout |-> <<latest>>]
            \* len - 2 in usize: panics with overflow checks, otherwise
            \* wraps to an index past the end and get returns None.
            ELSE IF len < 2
                 THEN (IF checks THEN Panicked(<<latest>>)
                       ELSE [exit |-> "ok", stdout |-> <<latest>>])
            \* moving_average.get(len - 2), an index counted from zero
            ELSE LET penultimate == average.value[(len - 2) + 1]
                     trend == [line |-> "trend",
                               weight |-> WeightDisplay(average.value[len].weight),
                               trend |-> EntryCmp(average.value[len], penultimate)]
                 IN  [exit |-> "ok", stdout |-> <<latest, trend>>]

StatusCall(source) ==
    /\ lastCall' = [op |-> "status", source |-> source,
                    result |-> Status(source, overflowChecks)]
    /\ log' = <<>>     \* the log is local to the command
    /\ UNCHANGED <<inserted, sorts, overflowChecks, env, home_dir_var, config>>

NextCsv ==
    \/ \E source \in CsvSources : FromCsvCall(source)
    \/ \E source \in StatusSources : StatusCall(source)

SpecCsv == Init /\ [][NextCsv]_vars

(***************************************************************************)
(* ShellExpander::tilde.  A path is its text, a sequence of characters.    *)
(***************************************************************************)
TILDE == <<"~">>

\* The pieces of a text between its separators.
RECURSIVE Split(_)
Split(text) ==
    IF text = <<>> THEN << <<>> >>
    ELSE LET rest == Split(Tail(text))
         IN  IF Head(text) = "/" THEN << <<>> >> \o rest
             ELSE << <<Head(text)>> \o Head(rest) >> \o Tail(rest)

RECURSIVE Join(_)
Join(pieces) ==
    IF pieces = <<>> THEN <<>>
    ELSE IF Len(pieces) = 1 THEN Head(pieces)
    ELSE Head(pieces) \o <<"/">> \o Join(Tail(pieces))

HasRoot(path) == path # <<>> /\ Head(path) = "/"

\* A piece that Path::components passes over: empty, or a dot that is not
\* the leading piece of a relative path.
Skipped(piece) == piece = <<>> \/ piece = <<".">>

Component(piece) ==
    IF piece = <<".", ".">> THEN [kind |-> "ParentDir"]
    ELSE [kind |-> "Normal", name |-> piece]

\* Path::components
Components(path) ==
    LET pieces == IF HasRoot(path) THEN Tail(Split(path)) ELSE Split(path)
        curDir == ~HasRoot(path) /\ Head(pieces) = <<".">>
        body   == IF curDir THEN Tail(pieces) ELSE pieces
        Kept(piece) == ~Skipped(piece)
        kept   == SelectSeq(body, Kept)
    IN  (IF HasRoot(path) THEN << [kind |-> "RootDir"] >> ELSE <<>>)
        \o (IF curDir THEN << [kind |-> "CurDir"] >> ELSE <<>>)
        \o [i \in 1..Len(kept) |-> Component(kept[i])]

RECURSIVE TrimLeft(_)
TrimLeft(pieces) ==
    IF pieces # <<>> /\ Skipped(Head(pieces)) THEN TrimLeft(Tail(pieces)) ELSE pieces

RECURSIVE TrimRight(_)
TrimRight(pieces) ==
    IF pieces # <<>> /\ Skipped(pieces[Len(pieces)])
    THEN TrimRight(SubSeq(pieces, 1, Len(pieces) - 1)) ELSE pieces

\* components.as_path() after next() returned the leading Normal component
\* of a relative path: the text after it, without the separators and dots
\* at either end.
RestAsPath(path) == Join(TrimRight(TrimLeft(Tail(Split(path)))))

\* PathBuf::push
Push(base, path) ==
    LET need_sep == base # <<>> /\ base[Len(base)] # "/"
    IN  IF HasRoot(path) THEN path
        ELSE base \o (IF need_sep THEN <<"/">> ELSE <<>>) \o path

Unset == [kind |-> "unset"]

NotUnicode == [kind |-> "not_unicode"]

SetTo(value) == [kind |-> "set", value |-> value]

\* env::var: the value of a variable that is set to valid Unicode, an
\* error for one that is not set or whose value is not valid Unicode.
EnvVar(environment, name) ==
    IF environment[name].kind = "set"
    THEN [ok |-> TRUE, value |-> environment[name].value]
    ELSE [ok |-> FALSE]

Borrowed(path) == [kind |-> "borrowed", path |-> path]

Owned(path) == [kind |-> "owned", path |-> path]

Failed == [kind |-> "err"]

\* A variant that looks for the tilde in any component.
TildeAnywhere(path, var, environment) ==
    LET components == Components(path)
    IN  IF \E i \in 1..Len(components) :
               components[i] = [kind |-> "Normal", name |-> TILDE]
        THEN LET home_dir == EnvVar(environment, var)
             IN  IF ~home_dir.ok THEN Failed
                 ELSE Owned(Push(home_dir.value, RestAsPath(path)))
        ELSE Borrowed(path)

\* ShellExpander::tilde
Tilde(path, var, environment) ==
    LET components == Components(path)
    IN  IF components # <<>> /\ Head(components) = [kind |-> "Normal", name |-> TILDE]
        THEN LET home_dir == EnvVar(environment, var)
             IN  IF ~home_dir.ok THEN Failed
                 ELSE Owned(Push(home_dir.value, RestAsPath(path)))
        ELSE Borrowed(path)

VarNames == {"TILDE", "HOME"}

HomeDirs == {<<"h", "o", "m", "e">>, <<"/", "r", "/">>, <<".">>, <<>>}

EnvValues == {Unset, NotUnicode} \cup {SetTo(h) : h \in HomeDirs}

Paths ==
    { <<"~", "/", "s", "o", "m", "e", "/", "p", "a", "t", "h">>,
      <<"s", "o", "m", "e", "/", "~", "/", "p", "a", "t", "h">>,
      <<"~">>,
      <<"~", "x", "/", "a">>,
      <<"/", "~", "/", "a">>,
      <<".", "/", "~", "/", "a">>,
      <<"~", "/", "/", "a", "/">>,
      <<>>,
      <<"~", "/", ".", "/", "a">>,
      <<"~", "/", ".", ".", "/", "a">>,
      <<"a", "/", "~">> }

\* ShellExpander::new in a process with any environment.
InitShell ==
    /\ log = <<>>
    /\ inserted = <<>>
    /\ sorts = 0
    /\ lastCall = NoCall
    /\ overflowChecks = FALSE
    /\ env \in [VarNames -> EnvValues]
    /\ home_dir_var \in VarNames
    /\ config = NoConfig

\* env::set_var
SetVar(name, value) ==
    /\ env' = [env EXCEPT ![name] = SetTo(value)]
    /\ lastCall' = [op |-> "set_var", name |-> name, value |-> value]
    /\ UNCHANGED <<log, inserted, sorts, overflowChecks, home_dir_var, config>>

TildeCall(path) ==
    /\ lastCall' = [op |-> "tilde", path |-> path,
                    result |-> Tilde(path, home_dir_var, env)]
    /\ UNCHANGED <<log, inserted, sorts, overflowChecks, env, home_dir_var, config>>

NextShell ==
    \/ \E name \in VarNames, value \in HomeDirs : SetVar(name, value)
    \/ \E path \in Paths : TildeCall(path)

SpecShell == InitShell /\ [][NextShell]_vars

(***************************************************************************)
(* Config::expand_paths, with an expander that may answer anything.        *)
(***************************************************************************)
ConfigPaths == {"~/.local/share/muse", "weight.csv", "some/dir", "new/path"}

ExpanderResults ==
    {Borrowed(p) : p \in ConfigPaths} \cup {Owned(p) : p \in ConfigPaths} \cup {Failed}

\* A variant that takes the path of a borrowed answer as well.
ExpandPathsAlways(cfg, r1, r2) ==
    IF r1.kind = "err" \/ r2.kind = "err" THEN [ok |-> FALSE]
    ELSE [ok |-> TRUE,
          config |-> [cfg EXCEPT !.data_dir = r1.path, !.weight_csv_file = r2.path]]

\* Config::expand_paths, r1 and r2 being the answers of the expander for
\* data_dir and for weight_csv_file.
ExpandPaths(cfg, r1, r2) ==
    IF r1.kind = "err" THEN [ok |-> FALSE]
    ELSE LET c1 == IF r1.kind = "owned" THEN [cfg EXCEPT !.data_dir = r1.path] ELSE cfg
         IN  IF r2.kind = "err" THEN [ok |-> FALSE]
             ELSE [ok |-> TRUE,
                   config |-> IF r2.kind = "owned"
                              THEN [c1 EXCEPT !.weight_csv_file = r2.path] ELSE c1]

InitConfig ==
    /\ log = <<>>
    /\ inserted = <<>>
    /\ sorts = 0
    /\ lastCall = NoCall
    /\ overflowChecks = FALSE
    /\ env = <<>>
    /\ home_dir_var = ""
    /\ config = NoConfig

\* Config::load and Config::default: both fields are given or defaulted.
LoadCall(data_dir, weight_csv_file) ==
    /\ config' = [loaded |-> TRUE, data_dir |-> data_dir,
                  weight_csv_file |-> weight_csv_file]
    /\ lastCall' = [op |-> "load"]
    /\ UNCHANGED <<log, inserted, sorts, overflowChecks, env, home_dir_var>>

\* expand_paths takes the Config by value: after a failure there is none.
ExpandPathsCall(r1, r2) ==
    /\ config.loaded
    /\ LET result == ExpandPaths(config, r1, r2)
       IN  /\ config' = IF result.ok THEN result.config ELSE NoConfig
           /\ lastCall' = [op |-> "expand_paths", before |-> config,
                           answers |-> <<r1, r2>>, ok |-> result.ok]
    /\ UNCHANGED <<log, inserted, sorts, overflowChecks, env, home_dir_var>>

NextConfig ==
    \/ \E d \in ConfigPaths, w \in ConfigPaths : LoadCall(d, w)
    \/ \E r1 \in ExpanderResults, r2 \in ExpanderResults : ExpandPathsCall(r1, r2)

SpecConfig == InitConfig /\ [][NextConfig]_vars

(***************************************************************************)
(* Properties of the weight log.                                           *)
(***************************************************************************)

\* C1: a log created empty and changed only by insert is non-decreasing by
\* timestamp after every insert.
SortedAfterInsert == IsSortedByTimestamp(log)

SortedAfterInsertWitness ==
    /\ Len(log) = 3
    /\ sorts >= 1
    /\ lastCall.op = "insert" /\ lastCall.sorted
    /\ log[1].timestamp = log[2].timestamp

EntriesAt(s, t) == LET At(e) == e.timestamp = t IN SelectSeq(s, At)

\* C2: entries that share a timestamp appear in the log in the order in
\* which they were inserted, also after an insert that re-sorted the log.
StableResort ==
    \A t \in Timestamps : EntriesAt(log, t) = EntriesAt(inserted, t)

\* C3: inserting entries whose timestamps are already non-decreasing never
\* sorts, and the log is exactly the entries inserted so far, in order.
AppendOrder ==
    IsSortedByTimestamp(inserted) =>
        /\ sorts = 0
        /\ log = inserted
        /\ Len(log) = Len(inserted)

AppendOrderWitness ==
    /\ Len(inserted) = 3
    /\ IsSortedByTimestamp(inserted)
    /\ inserted[2].timestamp = inserted[3].timestamp
    /\ inserted[2].weight # inserted[3].weight
    /\ lastCall.op = "insert"

\* The truncated mean of `period` u32 values, computed without any width.
ExactMean(ws, period) ==
    LET wide == WideSum(ws)
        h == (wide.carry % period) * Limb + wide.hi
    IN  [hi |-> h \div period, lo |-> ((h % period) * Limb + wide.lo) \div period]

\* C4: moving_average(period) returns len - period + 1 entries when
\* len >= period >= 1, no entry when len < period, and fails for period 0.
MovingAverageLength ==
    lastCall.op = "moving_average" =>
        IF lastCall.period = 0 THEN lastCall.result.panic
        ELSE /\ ~lastCall.result.panic
             /\ Len(lastCall.result.value) =
                    IF Len(log) >= lastCall.period
                    THEN Len(log) - lastCall.period + 1 ELSE 0

\* C5: the i-th entry of moving_average(period) has the truncated mean of
\* the weights of entries i .. i+period-1 and the timestamp of the last.
MovingAverageValues ==
    (lastCall.op = "moving_average" /\ lastCall.period >= 1
        /\ lastCall.period <= Len(log)) =>
        /\ ~lastCall.result.panic
        /\ \A i \in 1..Len(lastCall.result.value) :
            /\ lastCall.result.value[i].weight =
                 ExactMean(WeightsOf(SubSeq(log, i, i + lastCall.period - 1)),
                           lastCall.period)
            /\ lastCall.result.value[i].timestamp =
                 log[i + lastCall.period - 1].timestamp

\* C10: the window sum never overflows 32 bits: every average is the exact
\* truncated mean and lies between the least and greatest weight of its
\* window.
MovingAverageNoOverflow ==
    (lastCall.op = "moving_average" /\ lastCall.period >= 1
        /\ lastCall.period <= Len(log)) =>
        /\ ~lastCall.result.panic
        /\ Len(lastCall.result.value) = Len(log) - lastCall.period + 1
        /\ \A i \in 1..Len(lastCall.result.value) :
            LET window == SubSeq(log, i, i + lastCall.period - 1)
                average == lastCall.result.value[i].weight
            IN  /\ average = ExactMean(WeightsOf(window), lastCall.period)
                /\ \E j \in 1..Len(window) : U32Leq(window[j].weight, average)
                /\ \E j \in 1..Len(window) : U32Leq(average, window[j].weight)

(***************************************************************************)
(* Properties of from_csv and of the status command.                       *)
(***************************************************************************)
HasHeader(source) == source # <<>> /\ Head(source) = HeaderRecord

DataRows(source) == IF HasHeader(source) THEN Tail(source) ELSE source

ValidRow(row) ==
    Len(row) = 2 /\ ParseU32(row[1]).ok /\ ParseRfc3339(row[2]).ok

RowEntry(row) ==
    [weight |-> ParseU32(row[1]).value, timestamp |-> ParseRfc3339(row[2]).value]

\* C6: from_csv fails when the header is missing or any data row is
\* invalid; otherwise the log is exactly the data rows in file order.
CsvAllOrNothing ==
    lastCall.op = "from_csv" =>
        LET rows == DataRows(lastCall.source)
        IN  IF ~HasHeader(lastCall.source) \/ \E i \in 1..Len(rows) : ~ValidRow(rows[i])
            THEN ~lastCall.result.ok
            ELSE /\ lastCall.result.ok
                 /\ lastCall.result.log = [i \in 1..Len(rows) |-> RowEntry(rows[i])]
                 /\ Len(log) = Len(rows)

\* C9: for every source that loads, the status command ends without a
\* failure, and prints a trend only when two smoothed points exist.
StatusNeverFails ==
    (lastCall.op = "status" /\ FromCsv(lastCall.source).ok) =>
        /\ lastCall.result.exit = "ok"
        /\ (\E i \in 1..Len(lastCall.result.stdout) :
                lastCall.result.stdout[i].line = "trend")
            => Len(FromCsv(lastCall.source).log) >= moving_average_period + 1

(***************************************************************************)
(* Properties of the tilde expansion and of expand_paths.                  *)
(***************************************************************************)
FirstIsTilde(path) ==
    Components(path) # <<>> /\ Head(Components(path)).kind = "Normal"
        /\ Head(Components(path)).name = TILDE

\* What C7 says of a call apart from when it fails: a leading tilde with
\* the variable set to h gives h followed by the remaining components, and
\* any other path is returned unchanged.
TildeExpansion ==
    /\ (FirstIsTilde(lastCall.path) /\ env[home_dir_var].kind = "set") =>
          /\ lastCall.result.kind = "owned"
          /\ Components(lastCall.result.path) =
                Components(env[home_dir_var].value) \o Tail(Components(lastCall.path))
    /\ ~FirstIsTilde(lastCall.path) => lastCall.result = Borrowed(lastCall.path)

\* C7 as stated: expansion acts on the first component only, and the call
\* fails only when the first component is the tilde and the variable is
\* unset.
TildeFailsOnlyWhenUnset ==
    lastCall.op = "tilde" =>
        /\ TildeExpansion
        /\ lastCall.result.kind = "err" <=>
              (FirstIsTilde(lastCall.path) /\ env[home_dir_var].kind = "unset")

\* C7 as amended: the call fails only when the first component is the
\* tilde and the variable is unset or holds a value that is not Unicode.
TildeFirstComponentOnly ==
    lastCall.op = "tilde" =>
        /\ TildeExpansion
        /\ lastCall.result.kind = "err" <=>
              (FirstIsTilde(lastCall.path) /\ env[home_dir_var].kind # "set")

TildeFirstComponentOnlyWitness ==
    /\ lastCall.op = "tilde"
    /\ lastCall.path = <<"~", "/", "s", "o", "m", "e", "/", "p", "a", "t", "h">>
    /\ env[home_dir_var] = SetTo(<<"h", "o", "m", "e">>)
    /\ lastCall.result = Owned(<<"h", "o", "m", "e", "/", "s", "o", "m", "e", "/", "p", "a", "t", "h">>)

\* C8: expand_paths reassigns a field exactly when the expander answers
\* with an owned path for it, each field on its own.
ExpandPathsCopyOnWrite ==
    (lastCall.op = "expand_paths" /\ lastCall.ok) =>
        /\ config.data_dir =
              IF lastCall.answers[1].kind = "owned"
              THEN lastCall.answers[1].path ELSE lastCall.before.data_dir
        /\ config.weight_csv_file =
              IF lastCall.answers[2].kind = "owned"
              THEN lastCall.answers[2].path ELSE lastCall.before.weight_csv_file

ExpandPathsCopyOnWriteWitness ==
    /\ lastCall.op = "expand_paths" /\ lastCall.ok
    /\ lastCall.answers[1].kind = "borrowed"
    /\ lastCall.answers[1].path # lastCall.before.data_dir
    /\ lastCall.answers[2].kind = "owned"
    /\ lastCall.answers[2].path # lastCall.before.weight_csv_file
    /\ config.data_dir = lastCall.before.data_dir

====
